---- MODULE Spec2Model ----
(***************************************************************************)
(* Model of the Douban review scrapers of this repository:                 *)
(*   AuthenticatedDoubanSpiderMan  (authenticated_douban_spider.py) "auth" *)
(*   ManualCookieBlueKiteScraper   (manual_cookie_scraper.py)     "manual" *)
(*   BlueKiteScraper               (blue_kite_review_scraper.py) "selenium"*)
(*   BluekiteReviewScraper         (bluekite_review_scraper.py)  "bluekite"*)
(*                                                                         *)
(* Text is modelled by TLC strings (ASCII).  The result of evaluating one  *)
(* XPath candidate against an item node is an input of the model: a list   *)
(* of strings, or RAISE when the evaluation throws.  Python's None is the  *)
(* value PyNone, a dict is a sequence of <<key, value>> pairs in insertion *)
(* order.                                                                  *)
(***************************************************************************)
EXTENDS Integers, Sequences, FiniteSets, TLC

VARIABLES
  variant,       \* which scraper class the object is
  kind,          \* review_type of the running scrape call
  pc,            \* position in the running operation
  item,          \* the item node being normalized
  rec,           \* outcome of normalizing item
  doc,           \* the parsed page being extracted
  reviews_data,  \* the list a scrape call accumulates
  escaped,       \* an exception left the item loop of the page
  op,            \* the operation the user called: "none", "scrape", "all"
  page,          \* loop index of the page loop
  actual_pages,  \* number of pages the page loop iterates
  ret,           \* what the scrape call gives its caller
  short_reviews, \* scrape_all_reviews / crawl: the result of the short call
  retry_attempts,
  result,        \* what the called operation gave the user
  driver,        \* BlueKiteScraper.driver is set
  movie_id,      \* movie_id is set
  cookies_file,  \* content of douban_cookies.txt
  cookies,       \* scrape_reviews' local cookies dict has an entry
  session_cookies,      \* BluekiteReviewScraper.session holds cookies
  current_fingerprint,  \* index into browser_fingerprints (0: no such attribute)
  pages,         \* the pages argument of the running scrape call
  requests,      \* the review-page requests of the latest page-loop iteration
  login_verified \* what verify_login last returned in the running call

pure == <<item, rec, doc, escaped>>

obj == <<driver, movie_id, cookies_file, session_cookies, current_fingerprint>>

call == <<op, page, actual_pages, ret, short_reviews, retry_attempts,
          result, cookies, pages, requests, login_verified>>

vars == <<variant, kind, pc, reviews_data, pure, obj, call>>

(***************************************************************************)
(* Bounds of the model.                                                    *)
(***************************************************************************)
MaxFrags == 2
MaxTokens == 2
MaxNodes == 3
MaxPages == 2
MaxItems == 1
MaxApiItems == 2

\* program constants
NumFingerprints == 4
max_retries == 2

Variants == {"auth", "manual", "selenium", "bluekite"}
Kinds == {"short", "long"}

(***************************************************************************)
(* Python string primitives.                                               *)
(***************************************************************************)
IsSpace(c) == c \in {" ", "\t", "\n"}

\* needle in hay
Contains(needle, hay) ==
  \E i \in 1..(Len(hay) - Len(needle) + 1) :
     SubSeq(hay, i, i + Len(needle) - 1) = needle

RECURSIVE LStrip(_)
LStrip(s) ==
  IF s = "" THEN ""
  ELSE IF IsSpace(SubSeq(s, 1, 1)) THEN LStrip(SubSeq(s, 2, Len(s)))
  ELSE s

RECURSIVE RStrip(_)
RStrip(s) ==
  IF s = "" THEN ""
  ELSE IF IsSpace(SubSeq(s, Len(s), Len(s))) THEN RStrip(SubSeq(s, 1, Len(s) - 1))
  ELSE s

\* str.strip()
Strip(s) == RStrip(LStrip(s))

\* length of the leading run of non-whitespace characters of s
RECURSIVE WordLen(_)
WordLen(s) ==
  IF s = "" \/ IsSpace(SubSeq(s, 1, 1)) THEN 0
  ELSE 1 + WordLen(SubSeq(s, 2, Len(s)))

\* str.split() with no argument: the maximal runs of non-whitespace
RECURSIVE PySplit(_)
PySplit(s) ==
  LET t == LStrip(s)
      n == WordLen(t)
  IN IF t = "" THEN <<>>
     ELSE <<SubSeq(t, 1, n)>> \o PySplit(SubSeq(t, n + 1, Len(t)))

(***************************************************************************)
(* re.sub(r'\s*\((expand)\)\s*$', '', s).  The marker of the source is an   *)
(* opening parenthesis, the two CJK characters of "expand", and a closing  *)
(* parenthesis; the two characters are written "zk" here.                  *)
(***************************************************************************)
ExpandMarker == "(zk)"

EndsWith(s, suffix) ==
  /\ Len(s) >= Len(suffix)
  /\ SubSeq(s, Len(s) - Len(suffix) + 1, Len(s)) = suffix

ReSubExpand(s) ==
  LET t == RStrip(s)
  IN IF EndsWith(t, ExpandMarker)
     THEN RStrip(SubSeq(t, 1, Len(t) - Len(ExpandMarker)))
     ELSE s

\* ' '.join(parts)
RECURSIVE JoinSpace(_)
JoinSpace(parts) ==
  IF parts = <<>> THEN ""
  ELSE IF Len(parts) = 1 THEN parts[1]
  ELSE parts[1] \o " " \o JoinSpace(Tail(parts))

\* [c.strip() for c in elems if c.strip()]
RECURSIVE StripNonBlank(_)
StripNonBlank(elems) ==
  IF elems = <<>> THEN <<>>
  ELSE (IF Strip(elems[1]) = "" THEN <<>> ELSE <<Strip(elems[1])>>)
       \o StripNonBlank(Tail(elems))

JoinFragments(elems) == JoinSpace(StripNonBlank(elems))

(***************************************************************************)
(* item.xpath(selector): the list of matched strings, or an exception.     *)
(***************************************************************************)
XP(elems) == [raises |-> FALSE, elems |-> elems]
XRaise == [raises |-> TRUE, elems |-> <<>>]
XEmpty == XP(<<>>)

\* the result of the i-th candidate of a chain (no entry: nothing matched)
ResultAt(results, i) == IF i <= Len(results) THEN results[i] ELSE XEmpty

(***************************************************************************)
(* "for selector in [...]: elem = item.xpath(selector); if elem: ...;      *)
(* break": the index of the first candidate among 1..n that raises or      *)
(* matches something, 0 when all n candidates match nothing.               *)
(***************************************************************************)
RECURSIVE FirstHitFrom(_, _, _)
FirstHitFrom(results, n, i) ==
  IF i > n THEN 0
  ELSE IF ResultAt(results, i).raises \/ ResultAt(results, i).elems # <<>> THEN i
  ELSE FirstHitFrom(results, n, i + 1)

FirstHit(results, n) == FirstHitFrom(results, n, 1)

\* whether resolving the chain throws
ChainRaises(results, n) ==
  FirstHit(results, n) # 0 /\ ResultAt(results, FirstHit(results, n)).raises

\* the result list of the first successful candidate (<<>> when none)
ChainElems(results, n) ==
  IF FirstHit(results, n) = 0 THEN <<>>
  ELSE ResultAt(results, FirstHit(results, n)).elems

(***************************************************************************)
(* Number of candidate selectors per variant, review type and field.       *)
(***************************************************************************)
ChainLen(v, k, f) ==
  IF v = "bluekite" THEN
     IF k = "short"
     THEN CASE f = "username" -> 4 [] f = "date" -> 3 [] f = "rating" -> 3
            [] f = "content" -> 4 [] f = "contentAll" -> 0
            [] f = "votes" -> 3 [] f = "location" -> 2
     ELSE CASE f = "username" -> 5 [] f = "date" -> 5 [] f = "rating" -> 4
            [] f = "content" -> 5 [] f = "contentAll" -> 3
            [] f = "votes" -> 4 [] f = "location" -> 2
  ELSE IF v = "selenium" \/ k = "short" THEN
     CASE f = "contentAll" -> 0 [] f = "location" -> 0 [] OTHER -> 1
  ELSE
     CASE f = "contentAll" -> 1 [] f = "location" -> 0 [] OTHER -> 2

(***************************************************************************)
(* Rating class token to label.                                            *)
(***************************************************************************)
RatingPrefixes(v, k) ==
  IF v = "bluekite" /\ k = "short" THEN {"allstar", "rating", "star"}
  ELSE IF v = "bluekite" /\ k = "long" THEN {"allstar", "rating-star-", "star"}
  ELSE IF v \in {"auth", "manual"} /\ k = "long" THEN {"allstar", "rating-star-"}
  ELSE {"allstar"}

TierHit(v, k, text, suffix) ==
  \E p \in RatingPrefixes(v, k) : Contains(p \o suffix, text)

\* a faulty variant of RatingOfClass: the tiers tested from 5 down to 1
RatingOfClass_Descending(v, k, text) ==
  IF TierHit(v, k, text, "50") THEN "5 stars"
  ELSE IF TierHit(v, k, text, "40") THEN "4 stars"
  ELSE IF TierHit(v, k, text, "30") THEN "3 stars"
  ELSE IF TierHit(v, k, text, "20") THEN "2 stars"
  ELSE IF TierHit(v, k, text, "10") THEN "1 star"
  ELSE "No rating"

RatingOfClass(v, k, text) ==
  IF TierHit(v, k, text, "10") THEN "1 star"
  ELSE IF TierHit(v, k, text, "20") THEN "2 stars"
  ELSE IF TierHit(v, k, text, "30") THEN "3 stars"
  ELSE IF TierHit(v, k, text, "40") THEN "4 stars"
  ELSE IF TierHit(v, k, text, "50") THEN "5 stars"
  ELSE "No rating"

(***************************************************************************)
(* Field resolution of one item node.  An item is a record with one entry  *)
(* per field: the results of the field's candidate selectors, in the order *)
(* the code lists them (contentAll: the "//text()" fallback containers).   *)
(***************************************************************************)
Username(v, k, it) ==
  LET e == ChainElems(it.username, ChainLen(v, k, "username"))
  IN IF e = <<>> THEN "Unknown" ELSE e[1]

DateRaw(v, k, it) ==
  LET e == ChainElems(it.date, ChainLen(v, k, "date"))
  IN IF e = <<>> THEN "" ELSE Strip(e[1])

Rating(v, k, it) ==
  LET e == ChainElems(it.rating, ChainLen(v, k, "rating"))
  IN IF e = <<>> THEN "No rating" ELSE RatingOfClass(v, k, e[1])

\* the content as the candidate selectors give it
ContentFirst(v, k, it) ==
  LET e == ChainElems(it.content, ChainLen(v, k, "content"))
  IN IF e = <<>> THEN ""
     ELSE IF v = "bluekite"
          THEN IF k = "short" THEN JoinFragments(e)
               ELSE ReSubExpand(JoinFragments(e))
     ELSE IF v = "selenium" \/ k = "short" THEN Strip(e[1])
     ELSE ReSubExpand(Strip(e[1]))

\* "if not content:" the text of the fallback containers
Content(v, k, it) ==
  LET c == ContentFirst(v, k, it)
      e == ChainElems(it.contentAll, ChainLen(v, k, "contentAll"))
  IN IF c # "" \/ e = <<>> THEN c
     ELSE ReSubExpand(JoinFragments(e))

\* a faulty variant of Votes: no default for the popularity
Votes_NoDefault(v, k, it) ==
  LET e == ChainElems(it.votes, ChainLen(v, k, "votes"))
  IN IF e = <<>> THEN ""
     ELSE IF v = "bluekite" THEN Strip(e[1]) ELSE e[1]

Votes(v, k, it) ==
  LET e == ChainElems(it.votes, ChainLen(v, k, "votes"))
  IN IF e = <<>> THEN "0"
     ELSE IF v = "bluekite" THEN Strip(e[1]) ELSE e[1]

Location(v, k, it) ==
  LET e == ChainElems(it.location, ChainLen(v, k, "location"))
  IN IF e = <<>> THEN "N/A" ELSE Strip(e[1])

\* date_parts = date_raw.split()
DatePart(parts) == IF Len(parts) > 0 THEN parts[1] ELSE ""
TimePart(parts) == IF Len(parts) > 1 THEN parts[2] ELSE ""

\* the 'Date' entry of the review dict
DateField(v, k, it) ==
  IF k = "short" \/ v = "bluekite" THEN DatePart(PySplit(DateRaw(v, k, it)))
  ELSE DateRaw(v, k, it)

\* the 'Time' entry of the review dict
TimeField(v, k, it) ==
  IF k = "short" \/ v = "bluekite" THEN TimePart(PySplit(DateRaw(v, k, it)))
  ELSE ""

TypeLabel(k) == IF k = "short" THEN "Short" ELSE "Long"

\* the review dict literal, keys in insertion order
Review(u, d, t, loc, r, p, c, ty) ==
  << <<"Username", u>>, <<"Date", d>>, <<"Time", t>>,
     <<"Location of reviewer", loc>>, <<"Rating of film", r>>,
     <<"Popularity of review", p>>, <<"Content", c>>, <<"Review Type", ty>> >>

\* whether the body of the per-item try block throws
ItemRaises(v, k, it) ==
  \/ ChainRaises(it.username, ChainLen(v, k, "username"))
  \/ ChainRaises(it.date, ChainLen(v, k, "date"))
  \/ ChainRaises(it.rating, ChainLen(v, k, "rating"))
  \/ ChainRaises(it.content, ChainLen(v, k, "content"))
  \/ /\ ~ChainRaises(it.content, ChainLen(v, k, "content"))
     /\ ContentFirst(v, k, it) = ""
     /\ ChainRaises(it.contentAll, ChainLen(v, k, "contentAll"))
  \/ ChainRaises(it.votes, ChainLen(v, k, "votes"))
  \/ ChainRaises(it.location, ChainLen(v, k, "location"))

\* the body of the per-item try block: the review dict, or the exception
ParseItem(v, k, it) ==
  IF ItemRaises(v, k, it) THEN [ok |-> FALSE, review |-> <<>>]
  ELSE [ok |-> TRUE,
        review |-> Review(Username(v, k, it), DateField(v, k, it),
                          TimeField(v, k, it), Location(v, k, it),
                          Rating(v, k, it), Votes(v, k, it),
                          Content(v, k, it), TypeLabel(k))]

\* dict access
Keys(d) == {d[i][1] : i \in 1..Len(d)}
Get(d, key) == LET i == CHOOSE j \in 1..Len(d) : d[j][1] = key IN d[i][2]

(***************************************************************************)
(* Page extraction.  A parsed page is the list of node lists its           *)
(* container lookups return, in the order the code tries them.             *)
(***************************************************************************)
\* number of container lookups (the "broader search" of the long reviews
\* of BluekiteReviewScraper is the fourth)
ContainerLen(v, k) ==
  IF v = "bluekite" THEN (IF k = "short" THEN 3 ELSE 4)
  ELSE IF v = "selenium" \/ k = "short" THEN 1
  ELSE 2

NodesAt(d, i) == IF i <= Len(d) THEN d[i] ELSE <<>>

\* items = root.xpath(primary); if not items: items = root.xpath(next) ...
RECURSIVE NodesFrom(_, _, _)
NodesFrom(d, n, i) ==
  IF i > n THEN <<>>
  ELSE IF NodesAt(d, i) # <<>> THEN NodesAt(d, i)
  ELSE NodesFrom(d, n, i + 1)

\* a faulty variant of PageNodes: only the primary container is looked up
PageNodes_PrimaryOnly(v, k, d) == NodesAt(d, 1)

PageNodes(v, k, d) == NodesFrom(d, ContainerLen(v, k), 1)

\* a faulty variant of ItemTry: a dict is appended although the item threw
ItemTry_Partial(v, k, data, node) ==
  [raised |-> FALSE,
   data |-> Append(data, IF ParseItem(v, k, node).ok THEN ParseItem(v, k, node).review
                         ELSE <<<<"Username", "Unknown">>, <<"Review Type", TypeLabel(k)>>>>)]

\* a faulty variant of ItemTry: a dict already in the list is not appended
ItemTry_Dedup(v, k, data, node) ==
  IF ParseItem(v, k, node).ok
       /\ \A i \in 1..Len(data) : data[i] # ParseItem(v, k, node).review
  THEN [raised |-> FALSE, data |-> Append(data, ParseItem(v, k, node).review)]
  ELSE [raised |-> FALSE, data |-> data]

\* a faulty variant of ItemTry: the list is started afresh with the dict
ItemTry_Reset(v, k, data, node) ==
  IF ParseItem(v, k, node).ok
  THEN [raised |-> FALSE, data |-> <<ParseItem(v, k, node).review>>]
  ELSE [raised |-> FALSE, data |-> data]

\* a faulty variant of ItemTry: the dict is put in front of the list
ItemTry_Prepend(v, k, data, node) ==
  IF ParseItem(v, k, node).ok
  THEN [raised |-> FALSE, data |-> <<ParseItem(v, k, node).review>> \o data]
  ELSE [raised |-> FALSE, data |-> data]

\* "try: ... reviews_data.append(review) except Exception: continue" for one
\* item: the list afterwards, and whether an exception leaves the block
ItemTry(v, k, data, node) ==
  IF ParseItem(v, k, node).ok
  THEN [raised |-> FALSE, data |-> Append(data, ParseItem(v, k, node).review)]
  ELSE [raised |-> FALSE, data |-> data]

\* "for i, item in enumerate(items):" from node i on
RECURSIVE ItemLoop(_, _, _, _, _)
ItemLoop(v, k, data, nodes, i) ==
  IF i > Len(nodes) THEN [raised |-> FALSE, data |-> data]
  ELSE LET r == ItemTry(v, k, data, nodes[i])
       IN IF r.raised THEN r ELSE ItemLoop(v, k, r.data, nodes, i + 1)

\* the extraction of one parsed page into the list data
ExtractPage(v, k, data, d) == ItemLoop(v, k, data, PageNodes(v, k, d), 1)

(***************************************************************************)
(* Values returned to a caller: nothing yet, an exception, None, a list of *)
(* review dicts, or a DataFrame (its column index and its rows).           *)
(***************************************************************************)
PyNone == "<None>"

NoValue == [type |-> "none", columns |-> <<>>, rows |-> <<>>]
Raised == [type |-> "raise", columns |-> <<>>, rows |-> <<>>]
NoneValue == [type |-> "None", columns |-> <<>>, rows |-> <<>>]
BoolValue(b) == [type |-> IF b THEN "True" ELSE "False", columns |-> <<>>, rows |-> <<>>]
ListValue(l) == [type |-> "list", columns |-> <<>>, rows |-> l]

\* "if short_reviews:" a non-empty list
Truthy(val) == val.type = "list" /\ val.rows # <<>>

review_columns ==
  <<"Username", "Date", "Time", "Location of reviewer", "Rating of film",
    "Popularity of review", "Content", "Review Type">>

InSeq(x, q) == \E i \in 1..Len(q) : q[i] = x

\* the keys of the dicts in order of first appearance
RECURSIVE KeyOrder(_, _)
KeyOrder(cols, pairs) ==
  IF pairs = <<>> THEN cols
  ELSE KeyOrder(IF InSeq(pairs[1][1], cols) THEN cols ELSE Append(cols, pairs[1][1]),
                Tail(pairs))

RECURSIVE ColumnsOf(_, _)
ColumnsOf(cols, dicts) ==
  IF dicts = <<>> THEN cols
  ELSE ColumnsOf(KeyOrder(cols, dicts[1]), Tail(dicts))

\* pd.DataFrame(list_of_dicts); pd.DataFrame() is DataFrame(<<>>)
DataFrame(dicts) == [type |-> "table", columns |-> ColumnsOf(<<>>, dicts), rows |-> dicts]

\* pd.DataFrame(columns=cols)
EmptyFrame(cols) == [type |-> "table", columns |-> cols, rows |-> <<>>]

\* the DataFrame a variant's top-level scrape returns for all_reviews
ReviewsFrame(v, all) ==
  IF v = "selenium" THEN DataFrame(all)
  ELSE IF all # <<>> THEN DataFrame(all)
  ELSE IF v = "manual" THEN DataFrame(<<>>)
  ELSE EmptyFrame(review_columns)

(***************************************************************************)
(* Cookies.  The cookie file holds nothing usable ("absent": no file,      *)
(* "empty": blank), text without any name=value pair ("junk") or cookies   *)
(* ("valid").  What the user types at the prompt is "", "junk", "valid",   *)
(* or the prompt fails ("eof": input() raises EOFError).                   *)
(***************************************************************************)
FileStates == {"absent", "empty", "junk", "valid"}
UserInputs == {"", "junk", "valid", "eof"}

\* parse_cookie_string: whether the dict has an entry
ParsesToCookies(text) == text = "valid"

\* get_cookies / parse_cookie_string(get_cookie_string()): the exception,
\* or the cookies (whether any) and the cookie file afterwards
GetCookies(v, file, typed) ==
  IF file \in {"junk", "valid"} \/ (v = "manual" /\ file = "empty")
  THEN [raised |-> FALSE, any |-> ParsesToCookies(file), file |-> file,
        jar |-> v = "bluekite" /\ ParsesToCookies(file)]
  ELSE IF typed = "eof"
  THEN [raised |-> TRUE, any |-> FALSE, file |-> file, jar |-> FALSE]
  ELSE [raised |-> FALSE, any |-> ParsesToCookies(typed),
        file |-> IF typed = "" \/ (v = "bluekite" /\ ~ParsesToCookies(typed))
                 THEN file ELSE typed,
        jar |-> v = "bluekite" /\ ParsesToCookies(typed)]

(***************************************************************************)
(* Page requests.                                                          *)
(***************************************************************************)
\* the start offset put in the page URL ("back": the random step back of
\* BluekiteReviewScraper)
StartIdx(v, k, p, back) ==
  IF v = "manual" THEN (IF k = "short" THEN (p * 2) * 10 ELSE p * 2)
  ELSE IF v = "bluekite" /\ back /\ p > 0 THEN (p - 1) * 20
  ELSE p * 20

\* actual_pages: pages, or max(1, pages - randint(0, 2))
ActualPages(v, n) ==
  IF v = "bluekite" THEN {n} \cup { IF n - r > 1 THEN n - r ELSE 1 : r \in 0..2 }
  ELSE {n}

(***************************************************************************)
(* The mobile API fallback of BluekiteReviewScraper.scrape_all_reviews.    *)
(* A JSON member is absent, null or a value.                               *)
(***************************************************************************)
JAbsent == [st |-> "absent", v |-> <<>>]
JNull == [st |-> "null", v |-> <<>>]
JV(x) == [st |-> "val", v |-> x]

DigitStr(d) == SubSeq("0123456789", d + 1, d + 1)

\* str(n), f"{n}"
RECURSIVE IntStr(_)
IntStr(n) == IF n < 10 THEN DigitStr(n) ELSE IntStr(n \div 10) \o DigitStr(n % 10)

IsDigits(s) == \A i \in 1..Len(s) : \E d \in 0..9 : SubSeq(s, i, i) = DigitStr(d)

IsIsoDate(s) ==
  /\ Len(s) = 10
  /\ IsDigits(SubSeq(s, 1, 4)) /\ SubSeq(s, 5, 5) = "-"
  /\ IsDigits(SubSeq(s, 6, 7)) /\ SubSeq(s, 8, 8) = "-"
  /\ IsDigits(SubSeq(s, 9, 10))

IsIsoTime(s) ==
  /\ Len(s) = 8
  /\ IsDigits(SubSeq(s, 1, 2)) /\ SubSeq(s, 3, 3) = ":"
  /\ IsDigits(SubSeq(s, 4, 5)) /\ SubSeq(s, 6, 6) = ":"
  /\ IsDigits(SubSeq(s, 7, 8))

\* created_at.replace('Z', '+00:00')
RECURSIVE ReplaceZ(_)
ReplaceZ(s) ==
  IF s = "" THEN ""
  ELSE (IF SubSeq(s, 1, 1) = "Z" THEN "+00:00" ELSE SubSeq(s, 1, 1))
       \o ReplaceZ(SubSeq(s, 2, Len(s)))

\* datetime.fromisoformat: a date, a date and a time, or both and "+00:00"
IsoParses(s) ==
  \/ IsIsoDate(s)
  \/ /\ Len(s) \in {19, 25}
     /\ IsIsoDate(SubSeq(s, 1, 10))
     /\ IsIsoTime(SubSeq(s, 12, 19))
     /\ Len(s) = 25 => SubSeq(s, 20, 25) = "+00:00"

\* dt.strftime('%Y-%m-%d'), dt.strftime('%H:%M:%S')
IsoDate(s) == SubSeq(s, 1, 10)
IsoTime(s) == IF Len(s) = 10 THEN "00:00:00" ELSE SubSeq(s, 12, 19)

\* d.get(key, default) for a member whose value is a string or a number
JGet(m, default) ==
  IF m.st = "absent" THEN default ELSE IF m.st = "null" THEN PyNone ELSE m.v

\* item.get('user', {}) as a dict: the absent member gives the empty dict
NoUser == [name |-> JAbsent, loc |-> JAbsent]
NoLoc == [name |-> JAbsent]
NoRatingDict == [value |-> JAbsent]

ApiUser(it) == IF it.user.st = "val" THEN it.user.v ELSE NoUser
ApiLoc(it) == IF ApiUser(it).loc.st = "val" THEN ApiUser(it).loc.v ELSE NoLoc
ApiRatingDict(it) == IF it.rating.st = "val" THEN it.rating.v ELSE NoRatingDict

\* .get on None: AttributeError
ApiRaises(it) ==
  \/ it.user.st = "null"
  \/ it.rating.st = "null"
  \/ ApiUser(it).loc.st = "null"

\* rating_value, and rating = f"{rating_value} stars" if rating_value
ApiRating(it) ==
  LET m == ApiRatingDict(it).value
  IN IF m.st = "absent" THEN "No rating" \o " stars"
     ELSE IF m.st = "null" \/ m.v = 0 THEN "No rating"
     ELSE IntStr(m.v) \o " stars"

ApiCreated(it) == JGet(it.create_time, "")

ApiParses(it) ==
  /\ ApiCreated(it) \notin {"", PyNone}
  /\ IsoParses(ReplaceZ(ApiCreated(it)))

ApiDate(it) ==
  IF ApiCreated(it) \in {"", PyNone} THEN ""
  ELSE IF ApiParses(it) THEN IsoDate(ReplaceZ(ApiCreated(it)))
  ELSE ApiCreated(it)

ApiTime(it) == IF ApiParses(it) THEN IsoTime(ReplaceZ(ApiCreated(it))) ELSE ""

ApiPopularity(it) ==
  IF it.useful_count.st = "absent" THEN IntStr(0)
  ELSE IF it.useful_count.st = "null" THEN "None"
  ELSE IntStr(it.useful_count.v)

ApiReview(it) ==
  Review(JGet(ApiUser(it).name, "Unknown"), ApiDate(it), ApiTime(it),
         JGet(ApiLoc(it).name, "N/A"), ApiRating(it), ApiPopularity(it),
         JGet(it.comment, ""), "API")

\* "for item in data['interests']:" with its try block
RECURSIVE ApiLoop(_, _)
ApiLoop(all, interests) ==
  IF interests = <<>> THEN all
  ELSE ApiLoop(IF ApiRaises(interests[1]) THEN all
               ELSE Append(all, ApiReview(interests[1])),
               Tail(interests))

(***************************************************************************)
(* Inputs: item nodes.                                                     *)
(***************************************************************************)
\* raw timestamps of n whitespace-separated tokens
StampToken(i) == IF i = 1 THEN "2023-05-01" ELSE IF i = 2 THEN "14:30:00" ELSE "x"

RECURSIVE StampBody(_, _, _)
StampBody(i, n, sep) ==
  IF i > n THEN ""
  ELSE IF i = n THEN StampToken(i)
  ELSE StampToken(i) \o sep \o StampBody(i + 1, n, sep)

Stamps ==
  { pad[1] \o StampBody(1, n, sep) \o pad[2] :
      n \in 0..MaxTokens, sep \in {" ", " \t"}, pad \in {<<"", "">>, <<" ", "\n">>} }
  \ {""}

UsernameResults ==
  { <<>>, <<XP(<<"alice", "bob">>)>>, <<XEmpty, XRaise>> }

DateResults ==
  { <<>>, <<XEmpty, XP(<<" 2024-01-02 08:00 ">>)>> }
  \cup { <<XP(<<s>>)>> : s \in Stamps }

RatingResults ==
  { <<>>, <<XP(<<"allstar40 rating">>)>>, <<XEmpty, XP(<<"rating-star-20 star30">>)>> }

ContentResults ==
  { <<>>, <<XP(<<" Great movie (zk) ">>)>>, <<XP(<<" \n", "so ", " so">>)>>,
    <<XEmpty, XEmpty, XP(<<"(zk)">>)>> }

ContentAllResults == { <<>>, <<XP(<<"deep", " text (zk)">>)>> }

VotesResults == { <<>>, <<XP(<<" 12 ">>)>>, <<XRaise>> }

LocationResults == { <<>>, <<XP(<<" Beijing">>)>> }

Items ==
  [username : UsernameResults, date : DateResults, rating : RatingResults,
   content : ContentResults, contentAll : ContentAllResults,
   votes : VotesResults, location : LocationResults]

\* an item node in which no selector matches anything
BareItem ==
  [username |-> <<>>, date |-> <<>>, rating |-> <<>>, content |-> <<>>,
   contentAll |-> <<>>, votes |-> <<>>, location |-> <<>>]

\* rating class tokens: up to MaxFrags fragments, concatenated
ClassFragments ==
  {"allstar10", "allstar30", "rating20", "rating-star-40", "star50",
   "rating", "main-title-left", " "}

RECURSIVE ClassTokens(_)
ClassTokens(n) ==
  IF n = 0 THEN {""}
  ELSE ClassTokens(n - 1) \cup { t \o f : t \in ClassTokens(n - 1), f \in ClassFragments }

RatingItems ==
  {BareItem} \cup
  { [BareItem EXCEPT !.rating = <<XP(<<t>>)>>] : t \in ClassTokens(MaxFrags) }

(***************************************************************************)
(* Normalizing one item node.                                              *)
(***************************************************************************)
InitItem ==
  /\ variant \in Variants
  /\ kind \in Kinds
  /\ item \in Items
  /\ pc = "item"
  /\ rec = [ok |-> FALSE, review |-> <<>>]
  /\ doc = <<>>
  /\ reviews_data = <<>>
  /\ escaped = FALSE
  /\ op = "none" /\ page = 0 /\ actual_pages = 0 /\ ret = NoValue
  /\ pages = 0 /\ requests = <<>> /\ login_verified = "none"
  /\ short_reviews = NoValue /\ retry_attempts = 0
  /\ result = NoValue /\ driver = FALSE /\ movie_id = FALSE
  /\ cookies_file = "absent" /\ cookies = FALSE /\ session_cookies = FALSE
  /\ current_fingerprint = 0

InitRating ==
  /\ variant \in Variants
  /\ kind \in Kinds
  /\ item \in RatingItems
  /\ pc = "item"
  /\ rec = [ok |-> FALSE, review |-> <<>>]
  /\ doc = <<>>
  /\ reviews_data = <<>>
  /\ escaped = FALSE
  /\ op = "none" /\ page = 0 /\ actual_pages = 0 /\ ret = NoValue
  /\ pages = 0 /\ requests = <<>> /\ login_verified = "none"
  /\ short_reviews = NoValue /\ retry_attempts = 0
  /\ result = NoValue /\ driver = FALSE /\ movie_id = FALSE
  /\ cookies_file = "absent" /\ cookies = FALSE /\ session_cookies = FALSE
  /\ current_fingerprint = 0

NormalizeItem ==
  /\ pc = "item"
  /\ rec' = ParseItem(variant, kind, item)
  /\ pc' = "parsed"
  /\ UNCHANGED <<variant, kind, item, doc, reviews_data, escaped, obj, call>>

NextItem == NormalizeItem

SpecItem == InitItem /\ [][NextItem]_vars

SpecRating == InitRating /\ [][NextItem]_vars

(***************************************************************************)
(* Properties of the normalization of one item.                            *)
(***************************************************************************)
RatingLabels == {"No rating", "1 star", "2 stars", "3 stars", "4 stars", "5 stars"}

TierSuffix(t) ==
  CASE t = 1 -> "10" [] t = 2 -> "20" [] t = 3 -> "30" [] t = 4 -> "40" [] t = 5 -> "50"

TierLabel(t) ==
  CASE t = 1 -> "1 star" [] t = 2 -> "2 stars" [] t = 3 -> "3 stars"
    [] t = 4 -> "4 stars" [] t = 5 -> "5 stars"

\* the tiers of which the token contains a marker of the variant's vocabulary
TiersIn(v, k, token) ==
  { t \in 1..5 : \E p \in RatingPrefixes(v, k) : Contains(p \o TierSuffix(t), token) }

LeastTier(S) == CHOOSE t \in S : \A u \in S : t <= u

\* C1: the class token to label mapping is total and first-match-wins in
\* ascending tier order: the label is one of the six labels, it is the label
\* of the least tier whose marker the token contains (so a token with a
\* tier-1 and a tier-3 marker gives '1 star'), and 'No rating' when the token
\* holds no marker or there is no token.
C1_RatingTotalAscending ==
  pc = "parsed" =>
    /\ rec.ok
    /\ Get(rec.review, "Rating of film") \in RatingLabels
    /\ item.rating = <<>> => Get(rec.review, "Rating of film") = "No rating"
    /\ item.rating # <<>> =>
         LET token == item.rating[1].elems[1]
             tiers == TiersIn(variant, kind, token)
         IN /\ tiers = {} => Get(rec.review, "Rating of film") = "No rating"
            /\ tiers # {} =>
                 Get(rec.review, "Rating of film") = TierLabel(LeastTier(tiers))
            /\ {1, 3} \subseteq tiers => Get(rec.review, "Rating of film") = "1 star"

C1_Witness ==
  /\ pc = "parsed"
  /\ item.rating = <<XP(<<"allstar30allstar10">>)>>
  /\ Get(rec.review, "Rating of film") = "1 star"

\* C2: a record of kind Long has an empty Time, whatever the raw timestamp.
C2_LongTimeEmpty ==
  (pc = "parsed" /\ rec.ok /\ kind = "long") => Get(rec.review, "Time") = ""

\* the text the date selectors resolve to: the first element of the first
\* candidate that matches ("" when none matches)
ResolvedStamp(v, k, it) ==
  LET hit == { i \in 1..ChainLen(v, k, "date") : ResultAt(it.date, i).elems # <<>> }
  IN IF hit = {} THEN "" ELSE ResultAt(it.date, LeastTier(hit)).elems[1]

\* C3: Date is the first whitespace-separated token of the resolved raw
\* timestamp ('' when there is none) for both kinds, and for kind Short Time
\* is the second token or ''.
C3_DateFirstToken ==
  (pc = "parsed" /\ rec.ok) =>
    LET parts == PySplit(ResolvedStamp(variant, kind, item))
    IN /\ Get(rec.review, "Date") = (IF parts = <<>> THEN "" ELSE parts[1])
       /\ kind = "short" =>
            Get(rec.review, "Time") = (IF Len(parts) < 2 THEN "" ELSE parts[2])

\* no candidate selector of the chain yields a result
NoneMatch(results, n) ==
  \A i \in 1..n : ~ResultAt(results, i).raises /\ ResultAt(results, i).elems = <<>>

\* C4: a field none of whose candidate selectors yields a result has its
\* documented default: Username 'Unknown', Date '' and Time '', Location of
\* reviewer 'N/A', Rating of film 'No rating', Content '', Popularity '0'.
C4_FieldDefaults ==
  (pc = "parsed" /\ rec.ok) =>
    LET n(f) == ChainLen(variant, kind, f)
        r == rec.review
    IN /\ NoneMatch(item.username, n("username")) => Get(r, "Username") = "Unknown"
       /\ NoneMatch(item.date, n("date")) => Get(r, "Date") = "" /\ Get(r, "Time") = ""
       /\ NoneMatch(item.location, n("location")) => Get(r, "Location of reviewer") = "N/A"
       /\ NoneMatch(item.rating, n("rating")) => Get(r, "Rating of film") = "No rating"
       /\ (NoneMatch(item.content, n("content")) /\ NoneMatch(item.contentAll, n("contentAll")))
            => Get(r, "Content") = ""
       /\ NoneMatch(item.votes, n("votes")) => Get(r, "Popularity of review") = "0"

C4_Witness ==
  /\ pc = "parsed"
  /\ rec.ok
  /\ item = BareItem
  /\ Get(rec.review, "Username") = "Unknown"
  /\ Get(rec.review, "Popularity of review") = "0"
  /\ Get(rec.review, "Location of reviewer") = "N/A"

(***************************************************************************)
(* Extracting one page.                                                    *)
(***************************************************************************)
NodeA ==
  [BareItem EXCEPT !.username = <<XP(<<"alice">>)>>,
                   !.date = <<XP(<<"2023-05-01 14:30:00">>)>>,
                   !.rating = <<XP(<<"allstar40 rating">>)>>,
                   !.content = <<XP(<<"Great movie (zk)">>)>>,
                   !.votes = <<XP(<<"12">>)>>]

NodeB == [BareItem EXCEPT !.username = <<XP(<<"bob">>)>>]

\* throws in every variant
NodeX == [BareItem EXCEPT !.username = <<XRaise>>]

\* throws where the popularity has a second candidate selector
NodeY == [BareItem EXCEPT !.username = <<XP(<<"yan">>)>>, !.votes = <<XEmpty, XRaise>>]

PageNodeSet == {NodeA, NodeB, NodeX, NodeY}

RECURSIVE NodeLists(_)
NodeLists(n) ==
  IF n = 0 THEN {<<>>}
  ELSE NodeLists(n - 1) \cup
       { Append(l, x) : l \in { m \in NodeLists(n - 1) : Len(m) = n - 1 }, x \in PageNodeSet }

\* what one container lookup may match on a page with several containers
ContainerMatches == { <<>>, <<NodeA>>, <<NodeB, NodeA>> }

\* the results of the first n container lookups
RECURSIVE ContainerDocs(_)
ContainerDocs(n) ==
  IF n = 0 THEN {<<>>}
  ELSE ContainerDocs(n - 1) \cup
       { Append(d, m) : d \in { c \in ContainerDocs(n - 1) : Len(c) = n - 1 },
                        m \in ContainerMatches }

\* pages whose primary container matches, pages where only the first
\* fallback container does, and pages where any of the lookups match
Docs ==
  { <<l>> : l \in NodeLists(MaxNodes) } \cup { <<<<>>, l>> : l \in NodeLists(MaxNodes) }
  \cup ContainerDocs(ContainerLen("bluekite", "long"))

InitPage ==
  /\ variant \in Variants
  /\ kind \in Kinds
  /\ doc \in Docs
  /\ pc = "page"
  /\ reviews_data = <<>>
  /\ escaped = FALSE
  /\ item = BareItem
  /\ rec = [ok |-> FALSE, review |-> <<>>]
  /\ op = "none" /\ page = 0 /\ actual_pages = 0 /\ ret = NoValue
  /\ pages = 0 /\ requests = <<>> /\ login_verified = "none"
  /\ short_reviews = NoValue /\ retry_attempts = 0
  /\ result = NoValue /\ driver = FALSE /\ movie_id = FALSE
  /\ cookies_file = "absent" /\ cookies = FALSE /\ session_cookies = FALSE
  /\ current_fingerprint = 0

ExtractPageStep ==
  /\ pc = "page"
  /\ LET r == ExtractPage(variant, kind, reviews_data, doc)
     IN /\ reviews_data' = r.data
        /\ escaped' = r.raised
  /\ pc' = "extracted"
  /\ UNCHANGED <<variant, kind, item, rec, doc, obj, call>>

\* a later iteration of the page loop is served the same document again
\* (the step back of BluekiteReviewScraper, overlapping offsets)
ExtractAgain ==
  /\ pc = "extracted"
  /\ LET r == ExtractPage(variant, kind, reviews_data, doc)
     IN /\ reviews_data' = r.data
        /\ escaped' = r.raised
  /\ pc' = "again"
  /\ UNCHANGED <<variant, kind, item, rec, doc, obj, call>>

\* the documents of a later page
NextDocs == { <<>>, << <<NodeA>> >>, << <<NodeX, NodeB>> >> }

\* a later iteration of the page loop extracts another document
ExtractNext ==
  /\ pc = "extracted"
  /\ doc' \in NextDocs
  /\ LET r == ExtractPage(variant, kind, reviews_data, doc')
     IN /\ reviews_data' = r.data
        /\ escaped' = r.raised
  /\ pc' = "next"
  /\ UNCHANGED <<variant, kind, item, rec, obj, call>>

NextPage == ExtractPageStep \/ ExtractAgain \/ ExtractNext

SpecPage == InitPage /\ [][NextPage]_vars

\* the nodes of the page whose normalization throws
Failing(v, k, nodes) == { i \in 1..Len(nodes) : ItemRaises(v, k, nodes[i]) }

ReviewKeys ==
  {"Username", "Date", "Time", "Location of reviewer", "Rating of film",
   "Popularity of review", "Content", "Review Type"}

\* the j-th non-failing node of the page
RECURSIVE NthGood(_, _, _, _, _)
NthGood(v, k, nodes, i, j) ==
  IF ~ItemRaises(v, k, nodes[i])
  THEN (IF j = 1 THEN i ELSE NthGood(v, k, nodes, i + 1, j - 1))
  ELSE NthGood(v, k, nodes, i + 1, j)

\* C9: a failing item contributes no record, not even a partial one, each
\* other item of the page contributes exactly one record, and no exception
\* leaves the extraction of the page: with one failing item among N, N-1
\* records.
C9_ItemFailureIsolated ==
  pc = "extracted" =>
    LET nodes == PageNodes(variant, kind, doc)
        bad == Failing(variant, kind, nodes)
    IN /\ ~escaped
       /\ Len(reviews_data) = Len(nodes) - Cardinality(bad)
       /\ Cardinality(bad) = 1 => Len(reviews_data) = Len(nodes) - 1
       /\ \A j \in 1..Len(reviews_data) :
            /\ Keys(reviews_data[j]) = ReviewKeys
            /\ Get(reviews_data[j], "Username")
                 = Username(variant, kind, nodes[NthGood(variant, kind, nodes, 1, j)])

C9_Witness ==
  /\ pc = "extracted"
  /\ PageNodes(variant, kind, doc) = <<NodeA, NodeX, NodeB>>
  /\ Len(reviews_data) = 2
  /\ ~escaped


(***************************************************************************)
(* The scrapers as objects in use.  The user calls an operation when none  *)
(* is running; a scrape call runs its preamble, then its page loop one     *)
(* iteration at a time, then returns to its caller.  The site, the cookie  *)
(* prompt and the random draws are the environment.                        *)
(***************************************************************************)
\* the review item the site serves as the i-th of a listing
ServedNode(i) ==
  [BareItem EXCEPT !.username = <<XP(<<"u" \o IntStr(i)>>)>>,
                   !.date = <<XP(<<"2023-05-01 14:30:00">>)>>,
                   !.rating = <<XP(<<"allstar40">>)>>]

RECURSIVE ServedNodes(_, _)
ServedNodes(start, n) ==
  IF n = 0 THEN <<>> ELSE Append(ServedNodes(start, n - 1), ServedNode(start + n))

\* the pages the site may serve for a start offset: no item, MaxItems
\* items, or a broken item before these
ServedDocs(start) ==
  { <<ServedNodes(start, n)>> : n \in {0, MaxItems} }
  \cup { << <<NodeX>> \o ServedNodes(start, MaxItems) >> }

\* what a page request gives: an exception (also of the debug-file write or
\* of etree.HTML), the login page, a bot-detection page, or a listing
Responses(v, start) ==
  { [type |-> "raise", doc |-> <<>>] }
  \cup (IF v = "selenium" THEN {} ELSE { [type |-> "redirect", doc |-> <<>>] })
  \cup (IF v = "bluekite" THEN { [type |-> "bot", doc |-> <<>>] } ELSE {})
  \cup { [type |-> "ok", doc |-> d] : d \in ServedDocs(start) }

\* the items of the mobile API
ApiItemFull ==
  [user |-> JV([name |-> JV("ann"), loc |-> JV([name |-> JV("Beijing")])]),
   rating |-> JV([value |-> JV(4)]), comment |-> JV("good"),
   create_time |-> JV("2023-05-01 14:30:00"), useful_count |-> JV(3)]

ApiItemEmpty ==
  [user |-> JAbsent, rating |-> JAbsent, comment |-> JAbsent,
   create_time |-> JAbsent, useful_count |-> JAbsent]

ApiItemOne ==
  [ApiItemEmpty EXCEPT !.rating = JV([value |-> JV(1)]), !.comment = JNull]

ApiItemNullRating == [ApiItemFull EXCEPT !.rating = JNull]

ApiItems == {ApiItemFull, ApiItemEmpty, ApiItemOne, ApiItemNullRating}

RECURSIVE ApiLists(_)
ApiLists(n) ==
  IF n = 0 THEN {<<>>}
  ELSE ApiLists(n - 1) \cup
       { Append(l, x) : l \in { m \in ApiLists(n - 1) : Len(m) = n - 1 }, x \in ApiItems }

\* the API request: an exception (also of json.loads), a document without
\* 'interests', or the interests
ApiResponses ==
  { [type |-> "raise", interests |-> <<>>], [type |-> "other", interests |-> <<>>] }
  \cup { [type |-> "ok", interests |-> l] : l \in ApiLists(MaxApiItems) }

Init ==
  /\ variant \in Variants
  /\ kind = "short"
  /\ pc = "idle"
  /\ item = BareItem
  /\ rec = [ok |-> FALSE, review |-> <<>>]
  /\ doc = <<>>
  /\ escaped = FALSE
  /\ reviews_data = <<>>
  /\ op = "none" /\ page = 0 /\ actual_pages = 0 /\ ret = NoValue
  /\ pages = 0 /\ requests = <<>> /\ login_verified = "none"
  /\ short_reviews = NoValue /\ retry_attempts = 0
  /\ result = NoValue
  /\ driver = FALSE
  /\ movie_id = (variant # "selenium")
  /\ cookies_file \in (IF variant = "selenium" THEN {"absent"} ELSE FileStates)
  /\ cookies = FALSE
  /\ session_cookies = FALSE
  /\ current_fingerprint \in (IF variant = "bluekite" THEN 1..NumFingerprints ELSE {0})

\* what stays as it is while the object is in use
frame == <<variant, item, rec, doc, escaped>>

\* the running operation returns val to the user; its locals are gone
Idle(val) ==
  /\ pc' = "idle"
  /\ op' = "none"
  /\ kind' = "short"
  /\ result' = val
  /\ reviews_data' = <<>>
  /\ page' = 0
  /\ actual_pages' = 0
  /\ ret' = NoValue
  /\ short_reviews' = NoValue
  /\ retry_attempts' = 0
  /\ cookies' = FALSE
  /\ pages' = 0
  /\ requests' = <<>>
  /\ login_verified' = "none"

\* a scrape call starts: its locals are fresh
Enter(k) ==
  /\ pc' = "begin"
  /\ kind' = k
  /\ reviews_data' = <<>>
  /\ page' = 0
  /\ actual_pages' = 0
  /\ ret' = NoValue
  /\ cookies' = FALSE
  /\ pages' \in 0..MaxPages
  /\ requests' = <<>>
  /\ login_verified' = "none"

\* BlueKiteScraper.login_to_douban: the browser fails to start, the login
\* page fails to load, or the login is judged
LoginToDouban ==
  /\ variant = "selenium"
  /\ pc = "idle"
  /\ \E out \in {"nobrowser", "raise", "True", "False"} :
       /\ driver' = (IF out = "nobrowser" THEN driver ELSE TRUE)
       /\ result' = IF out \in {"nobrowser", "raise"} THEN Raised
                    ELSE BoolValue(out = "True")
  /\ UNCHANGED <<frame, kind, pc, reviews_data, op, page, actual_pages, ret,
                 short_reviews, retry_attempts, cookies, movie_id, cookies_file,
                 session_cookies, current_fingerprint, pages, requests,
                 login_verified>>

\* BlueKiteScraper.find_movie
FindMovie ==
  /\ variant = "selenium"
  /\ pc = "idle"
  /\ \E found \in BOOLEAN :
       /\ movie_id' = (movie_id \/ (driver /\ found))
       /\ result' = BoolValue(driver /\ found)
  /\ UNCHANGED <<frame, kind, pc, reviews_data, op, page, actual_pages, ret,
                 short_reviews, retry_attempts, cookies, driver, cookies_file,
                 session_cookies, current_fingerprint, pages, requests,
                 login_verified>>

\* a faulty variant of Cleanup: the driver is quit but stays set
Cleanup_KeepsDriver ==
  /\ variant = "selenium"
  /\ pc = "idle"
  /\ \E quits \in BOOLEAN :
       /\ result' = (IF driver /\ ~quits THEN Raised ELSE NoneValue)
       /\ UNCHANGED driver
  /\ UNCHANGED <<frame, kind, pc, reviews_data, op, page, actual_pages, ret,
                 short_reviews, retry_attempts, cookies, movie_id, cookies_file,
                 session_cookies, current_fingerprint, pages, requests,
                 login_verified>>

\* BlueKiteScraper.cleanup
Cleanup ==
  /\ variant = "selenium"
  /\ pc = "idle"
  /\ \E quits \in BOOLEAN :
       IF driver /\ ~quits
       THEN /\ result' = Raised
            /\ UNCHANGED driver
       ELSE /\ result' = NoneValue
            /\ driver' = FALSE
  /\ UNCHANGED <<frame, kind, pc, reviews_data, op, page, actual_pages, ret,
                 short_reviews, retry_attempts, cookies, movie_id, cookies_file,
                 session_cookies, current_fingerprint, pages, requests,
                 login_verified>>

\* the user calls scrape_reviews(review_type=k), or scrape_short_reviews /
\* scrape_long_reviews of BlueKiteScraper
CallScrape(k) ==
  /\ pc = "idle"
  /\ op' = "scrape"
  /\ Enter(k)
  /\ result' = NoValue
  /\ UNCHANGED <<frame, obj, short_reviews, retry_attempts>>

\* the user calls scrape_all_reviews, or crawl of AuthenticatedDoubanSpiderMan
CallScrapeAll ==
  /\ pc = "idle"
  /\ op' = "all"
  /\ Enter("short")
  /\ result' = NoValue
  /\ retry_attempts' = 0
  /\ short_reviews' = NoValue
  /\ UNCHANGED <<frame, obj>>

\* a faulty variant of ScrapeBegin: the page loop is entered whatever
\* verify_login returned
ScrapeBegin_NoVerify ==
  /\ pc = "begin"
  /\ IF variant = "selenium"
     THEN /\ IF ~movie_id \/ ~driver
             THEN /\ ret' = NoneValue
                  /\ pc' = "ret"
                  /\ UNCHANGED actual_pages
             ELSE /\ actual_pages' = pages
                  /\ pc' = "loop"
                  /\ UNCHANGED ret
          /\ UNCHANGED <<cookies, cookies_file, session_cookies, login_verified>>
     ELSE \E typed \in UserInputs :
            LET gc == GetCookies(variant, cookies_file, typed)
            IN /\ cookies_file' = gc.file
               /\ session_cookies' = (session_cookies \/ gc.jar)
               /\ IF gc.raised
                  THEN /\ ret' = Raised
                       /\ pc' = "ret"
                       /\ UNCHANGED <<cookies, actual_pages, login_verified>>
                  ELSE /\ cookies' = gc.any
                       /\ \E verified \in (IF variant = "bluekite" THEN BOOLEAN ELSE {TRUE}) :
                            /\ login_verified' = (IF variant # "bluekite" THEN "none"
                                                  ELSE IF verified THEN "True" ELSE "False")
                            /\ actual_pages' \in ActualPages(variant, pages)
                            /\ pc' = "loop"
                            /\ UNCHANGED ret
  /\ UNCHANGED <<frame, kind, reviews_data, op, page, short_reviews, retry_attempts,
                 result, driver, movie_id, current_fingerprint, pages, requests>>

\* the preamble of a scrape call, up to the page loop
ScrapeBegin ==
  /\ pc = "begin"
  /\ IF variant = "selenium"
     THEN /\ IF ~movie_id \/ ~driver
             THEN /\ ret' = NoneValue
                  /\ pc' = "ret"
                  /\ UNCHANGED actual_pages
             ELSE /\ actual_pages' = pages
                  /\ pc' = "loop"
                  /\ UNCHANGED ret
          /\ UNCHANGED <<cookies, cookies_file, session_cookies, login_verified>>
     ELSE \E typed \in UserInputs :
            LET gc == GetCookies(variant, cookies_file, typed)
            IN /\ cookies_file' = gc.file
               /\ session_cookies' = (session_cookies \/ gc.jar)
               /\ IF gc.raised
                  THEN /\ ret' = Raised
                       /\ pc' = "ret"
                       /\ UNCHANGED <<cookies, actual_pages, login_verified>>
                  ELSE /\ cookies' = gc.any
                       /\ \E verified \in (IF variant = "bluekite" THEN BOOLEAN ELSE {TRUE}) :
                            /\ login_verified' = (IF variant # "bluekite" THEN "none"
                                                  ELSE IF verified THEN "True" ELSE "False")
                            /\ IF ~verified
                               THEN /\ ret' = ListValue(<<>>)
                                    /\ pc' = "ret"
                                    /\ UNCHANGED actual_pages
                               ELSE /\ actual_pages' \in ActualPages(variant, pages)
                                    /\ pc' = "loop"
                                    /\ UNCHANGED ret
  /\ UNCHANGED <<frame, kind, reviews_data, op, page, short_reviews, retry_attempts,
                 result, driver, movie_id, current_fingerprint, pages, requests>>

\* one request of a review page: the loop index, the start offset of the
\* URL, why it is sent ("page": the fetch of the iteration, "login": the
\* retry with new cookies, "bot": the retry after bot detection) and what
\* came back.  Its headers are built from current_fingerprint as it is when
\* the request is sent.
Fetch(p, start, why, got) ==
  [page |-> p, start |-> start, why |-> why, got |-> got]

\* one iteration of the page loop is over (lv: what verify_login last
\* returned, rq: the requests of the iteration)
Continue(data, file, ck, jar, fp, lv, rq) ==
  [next |-> "continue", data |-> data, file |-> file, cookies |-> ck, jar |-> jar,
   fp |-> fp, verified |-> lv, reqs |-> rq]

\* the page loop is left by "return reviews_data"
Return(data, file, ck, jar, fp, lv, rq) ==
  [next |-> "return", data |-> data, file |-> file, cookies |-> ck, jar |-> jar,
   fp |-> fp, verified |-> lv, reqs |-> rq]

\* a response is at hand: the bot check of BluekiteReviewScraper, then the
\* extraction of the page (ex: the list after extracting each response)
AfterResponse(v, data, r, ex, file, ck, jar, fp, lv, rq) ==
  IF v = "bluekite" /\ r.type = "bot"
  THEN UNION { { LET rq3 == Append(rq, Fetch(rq[1].page, rq[1].start, "bot", r3.type))
                 IN IF r3.type = "raise" THEN Continue(data, file, ck, jar, fpn, lv, rq3)
                    ELSE IF r3.type = "bot" THEN Return(data, file, ck, jar, fpn, lv, rq3)
                    ELSE Continue(ex[r3], file, ck, jar, fpn, lv, rq3)
                 : r3 \in DOMAIN ex } : fpn \in 1..NumFingerprints }
  ELSE { Continue(ex[r], file, ck, jar, fp, lv, rq) }

\* the first page came back as the login page: the cookie file is removed
\* and the cookies are asked for again
AfterRedirect(v, data, r1, ex, ck, jar, fp, lv, rq) ==
  UNION { LET gc == GetCookies(v, "absent", typed)
          IN IF gc.raised THEN { Continue(data, "absent", ck, jar, fp, lv, rq) }
             ELSE IF ~gc.any
             THEN (IF v = "bluekite" THEN { Return(data, gc.file, FALSE, jar, fp, lv, rq) }
                   ELSE AfterResponse(v, data, r1, ex, gc.file, FALSE, jar, fp, lv, rq))
             ELSE UNION { IF ~verified
                          THEN { Return(data, gc.file, TRUE, jar \/ gc.jar, fp, "False", rq) }
                          ELSE UNION { LET lv2 == IF v = "bluekite" THEN "True" ELSE lv
                                           rq2 == Append(rq, Fetch(rq[1].page, rq[1].start,
                                                                   "login", r2.type))
                                       IN IF r2.type = "raise"
                                          THEN { Continue(data, gc.file, TRUE, jar \/ gc.jar,
                                                          fp, lv2, rq2) }
                                          ELSE AfterResponse(v, data, r2, ex, gc.file,
                                                             TRUE, jar \/ gc.jar, fp, lv2, rq2)
                                       : r2 \in DOMAIN ex }
                          : verified \in (IF v = "bluekite" THEN BOOLEAN ELSE {TRUE}) }
          : typed \in UserInputs }

\* a faulty variant of PageOutcomes: a failed request loses the records of
\* the pages before
PageOutcomes_FailureClears(v, k, data, p, start, file, ck, jar, fp, lv) ==
  LET ex == [r \in Responses(v, start) |-> ExtractPage(v, k, data, r.doc).data]
  IN UNION { LET rq == << Fetch(p, start, "page", r1.type) >>
             IN IF r1.type = "raise" THEN { Continue(<<>>, file, ck, jar, fp, lv, rq) }
                ELSE IF r1.type = "redirect" /\ p = 0
                THEN AfterRedirect(v, data, r1, ex, ck, jar, fp, lv, rq)
                ELSE AfterResponse(v, data, r1, ex, file, ck, jar, fp, lv, rq)
             : r1 \in DOMAIN ex }

\* a faulty variant of PageOutcomes: the login redirect is handled on every
\* page
PageOutcomes_RetryAnyPage(v, k, data, p, start, file, ck, jar, fp, lv) ==
  LET ex == [r \in Responses(v, start) |-> ExtractPage(v, k, data, r.doc).data]
  IN UNION { LET rq == << Fetch(p, start, "page", r1.type) >>
             IN IF r1.type = "raise" THEN { Continue(data, file, ck, jar, fp, lv, rq) }
                ELSE IF r1.type = "redirect"
                THEN AfterRedirect(v, data, r1, ex, ck, jar, fp, lv, rq)
                ELSE AfterResponse(v, data, r1, ex, file, ck, jar, fp, lv, rq)
             : r1 \in DOMAIN ex }

\* the body of "for page in range(...)" for the request of offset start
PageOutcomes(v, k, data, p, start, file, ck, jar, fp, lv) ==
  LET ex == [r \in Responses(v, start) |-> ExtractPage(v, k, data, r.doc).data]
  IN UNION { LET rq == << Fetch(p, start, "page", r1.type) >>
             IN IF r1.type = "raise" THEN { Continue(data, file, ck, jar, fp, lv, rq) }
                ELSE IF r1.type = "redirect" /\ p = 0
                THEN AfterRedirect(v, data, r1, ex, ck, jar, fp, lv, rq)
                ELSE AfterResponse(v, data, r1, ex, file, ck, jar, fp, lv, rq)
             : r1 \in DOMAIN ex }

\* one iteration of the page loop
ScrapePage ==
  /\ pc = "loop"
  /\ page < actual_pages
  /\ \E back \in (IF variant = "bluekite" /\ page > 0 THEN BOOLEAN ELSE {FALSE}) :
       \E o \in PageOutcomes(variant, kind, reviews_data, page,
                             StartIdx(variant, kind, page, back),
                             cookies_file, cookies, session_cookies, current_fingerprint,
                             login_verified) :
         /\ reviews_data' = o.data
         /\ cookies_file' = o.file
         /\ cookies' = o.cookies
         /\ session_cookies' = o.jar
         /\ current_fingerprint' = o.fp
         /\ login_verified' = o.verified
         /\ requests' = o.reqs
         /\ IF o.next = "return"
            THEN /\ ret' = ListValue(o.data)
                 /\ pc' = "ret"
                 /\ UNCHANGED page
            ELSE /\ page' = page + 1
                 /\ UNCHANGED <<ret, pc>>
  /\ UNCHANGED <<frame, kind, op, actual_pages, short_reviews, retry_attempts,
                 result, driver, movie_id, pages>>

\* the page loop is exhausted: return reviews_data
ScrapeEnd ==
  /\ pc = "loop"
  /\ page >= actual_pages
  /\ ret' = ListValue(reviews_data)
  /\ pc' = "ret"
  /\ UNCHANGED <<frame, kind, reviews_data, obj, op, page, actual_pages,
                 short_reviews, retry_attempts, result, cookies, pages, requests,
                 login_verified>>

\* a scrape call the user made returns
ReturnToUser ==
  /\ pc = "ret"
  /\ op = "scrape"
  /\ Idle(ret)
  /\ UNCHANGED <<frame, obj>>

\* a faulty variant of Combined: the long reviews are put first
Combined_LongFirst(short, long) ==
  (IF Truthy(long) THEN long.rows ELSE <<>>)
  \o (IF Truthy(short) THEN short.rows ELSE <<>>)

\* "if short_reviews: all_reviews.extend(short_reviews)", and so for long
Combined(short, long) ==
  (IF Truthy(short) THEN short.rows ELSE <<>>)
  \o (IF Truthy(long) THEN long.rows ELSE <<>>)

\* BluekiteReviewScraper: "while retry_attempts <= max_retries and not
\* all_reviews", then the table
LoopHead(ra, all) ==
  IF ra <= max_retries /\ all = <<>>
  THEN /\ Enter("short")
       /\ retry_attempts' = ra
       /\ short_reviews' = NoValue
       /\ UNCHANGED <<op, result>>
  ELSE Idle(ReviewsFrame(variant, all))

\* BluekiteReviewScraper: the rest of the loop body once both calls are
\* back: the retry counter, the new fingerprint, the API on the first retry
AfterCombine(all) ==
  IF all = <<>> /\ retry_attempts < max_retries
  THEN /\ current_fingerprint' \in 1..NumFingerprints
       /\ IF retry_attempts + 1 = 1
          THEN \E a \in ApiResponses :
                 LoopHead(retry_attempts + 1,
                          IF a.type = "ok" THEN ApiLoop(all, a.interests) ELSE all)
          ELSE LoopHead(retry_attempts + 1, all)
  ELSE /\ LoopHead(retry_attempts, all)
       /\ UNCHANGED current_fingerprint

\* BluekiteReviewScraper: "except Exception" of the loop body
Handler ==
  /\ LoopHead(retry_attempts + 1, <<>>)
  /\ UNCHANGED current_fingerprint

\* scrape_all_reviews / crawl: the short call is back
ReturnShort ==
  /\ pc = "ret"
  /\ op = "all"
  /\ kind = "short"
  /\ IF ret = Raised
     THEN (IF variant = "bluekite" THEN Handler
           ELSE Idle(Raised) /\ UNCHANGED current_fingerprint)
     ELSE /\ short_reviews' = ret
          /\ Enter("long")
          /\ UNCHANGED <<op, retry_attempts, result, current_fingerprint>>
  /\ UNCHANGED <<frame, driver, movie_id, cookies_file, session_cookies>>

\* scrape_all_reviews / crawl: the long call is back
ReturnLong ==
  /\ pc = "ret"
  /\ op = "all"
  /\ kind = "long"
  /\ IF ret = Raised
     THEN (IF variant = "bluekite" THEN Handler
           ELSE Idle(Raised) /\ UNCHANGED current_fingerprint)
     ELSE IF variant = "bluekite" THEN AfterCombine(Combined(short_reviews, ret))
     ELSE /\ Idle(ReviewsFrame(variant, Combined(short_reviews, ret)))
          /\ UNCHANGED current_fingerprint
  /\ UNCHANGED <<frame, driver, movie_id, cookies_file, session_cookies>>

Next ==
  \/ LoginToDouban
  \/ FindMovie
  \/ Cleanup
  \/ \E k \in Kinds : CallScrape(k)
  \/ CallScrapeAll
  \/ ScrapeBegin
  \/ ScrapePage
  \/ ScrapeEnd
  \/ ReturnToUser
  \/ ReturnShort
  \/ ReturnLong

Spec == Init /\ [][Next]_vars

\* the objects when the user calls only the single scrape operations
\* (scrape_reviews, scrape_short_reviews, scrape_long_reviews)
NextCall ==
  \/ LoginToDouban
  \/ FindMovie
  \/ Cleanup
  \/ \E k \in Kinds : CallScrape(k)
  \/ ScrapeBegin
  \/ ScrapePage
  \/ ScrapeEnd
  \/ ReturnToUser

SpecCall == Init /\ [][NextCall]_vars

(***************************************************************************)
(* Properties of the tables and lists the operations return.               *)
(***************************************************************************)
\* the records of a returned list or table
RowsOf(val) == { val.rows[i] : i \in 1..Len(val.rows) }

\* every record held by the running operation or returned by the last one
Records ==
  { reviews_data[i] : i \in 1..Len(reviews_data) }
  \cup RowsOf(ret) \cup RowsOf(short_reviews) \cup RowsOf(result)

\* C5: every record of the table a top-level scrape returns has Review
\* Type 'Short' or 'Long'.
C5_ReviewTypeShortOrLong ==
  result.type = "table" =>
    \A r \in RowsOf(result) : Get(r, "Review Type") \in {"Short", "Long"}

\* C6: every record of the table a top-level scrape returns has a Rating
\* of film among the six labels.
C6_RatingLabelInTable ==
  result.type = "table" =>
    \A r \in RowsOf(result) : Get(r, "Rating of film") \in RatingLabels

\* C7: every record appended to a result list carries all eight keys, each
\* with a defined value.
C7_AllKeysDefined ==
  \A r \in Records :
    /\ Keys(r) = ReviewKeys
    /\ \A i \in 1..Len(r) : r[i][2] # PyNone

\* C8: the table a top-level scrape returns has exactly the eight columns,
\* in order, with and without collected reviews.
C8_TableColumns ==
  result.type = "table" => result.columns = review_columns

\* C10: every call of a review-scraping operation returns a list and
\* raises nothing to its caller.
C10_ScrapeReturnsList ==
  pc = "ret" => ret.type = "list"

(***************************************************************************)
(* Further properties of the extraction of a page.                         *)
(***************************************************************************)
\* the first of the n container lookups that matches a node (0: none does)
RECURSIVE FirstContainer(_, _, _)
FirstContainer(d, n, i) ==
  IF i > n THEN 0
  ELSE IF NodesAt(d, i) # <<>> THEN i
  ELSE FirstContainer(d, n, i + 1)

\* C11: the item nodes are those of the first container lookup, in the
\* code's order, that matches any node; later lookups are not used, and a
\* page on which no lookup matches gives no record and no error.
C11_ContainerChain ==
  pc = "extracted" =>
    LET n == ContainerLen(variant, kind)
        f == FirstContainer(doc, n, 1)
    IN /\ ~escaped
       /\ (\A i \in 1..n : NodesAt(doc, i) = <<>>) => (f = 0 /\ reviews_data = <<>>)
       /\ f # 0 =>
            /\ \A j \in 1..(f - 1) : NodesAt(doc, j) = <<>>
            /\ reviews_data = ItemLoop(variant, kind, <<>>, NodesAt(doc, f), 1).data

C11_Witness ==
  /\ pc = "extracted"
  /\ variant = "bluekite"
  /\ kind = "long"
  /\ doc = << <<>>, <<>>, <<NodeA>>, <<NodeB, NodeA>> >>
  /\ Len(reviews_data) = 1
  /\ Get(reviews_data[1], "Username") = "alice"

\* C12: the records of a page are in the document order of their item
\* nodes: record a precedes record b exactly when its node precedes b's.
C12_DocumentOrder ==
  pc = "extracted" =>
    LET nodes == PageNodes(variant, kind, doc)
        at(j) == NthGood(variant, kind, nodes, 1, j)
    IN \A a, b \in 1..Len(reviews_data) :
         /\ reviews_data[a] = ParseItem(variant, kind, nodes[at(a)]).review
         /\ a < b => at(a) < at(b)

C12_Witness ==
  /\ pc = "extracted"
  /\ PageNodes(variant, kind, doc) = <<NodeB, NodeX, NodeA>>
  /\ Len(reviews_data) = 2
  /\ Get(reviews_data[1], "Username") = "bob"
  /\ Get(reviews_data[2], "Username") = "alice"

\* C13: extracting the same unmodified document a second time, with the
\* same kind, gives the same records in the same order as the first time.
C13_ExtractionIdempotent ==
  pc = "again" =>
    LET h == Len(reviews_data) \div 2
    IN /\ Len(reviews_data) = 2 * h
       /\ \A i \in 1..h : reviews_data[h + i] = reviews_data[i]
       /\ SubSeq(reviews_data, 1, h) = ExtractPage(variant, kind, <<>>, doc).data

C13_Witness ==
  /\ pc = "again"
  /\ PageNodes(variant, kind, doc) = <<NodeA, NodeX, NodeB>>
  /\ Len(reviews_data) = 4
  /\ reviews_data[3] = reviews_data[1]
  /\ reviews_data[4] = reviews_data[2]

\* C18: extracting a fetched page changes nothing but the list: the
\* fingerprint, the session cookies, the cookie file, the driver and the
\* records accumulated before stay as they were, and the records added are
\* those the page gives on its own, whatever was extracted before.
C18_ExtractionFrame ==
  [][ pc' \in {"extracted", "again", "next"} =>
        LET n == Len(reviews_data)
        IN /\ obj' = obj
           /\ Len(reviews_data') >= n
           /\ SubSeq(reviews_data', 1, n) = reviews_data
           /\ SubSeq(reviews_data', n + 1, Len(reviews_data'))
                = ExtractPage(variant, kind, <<>>, doc').data ]_vars

C18_Witness ==
  /\ pc = "next"
  /\ doc = << <<NodeX, NodeB>> >>
  /\ Len(reviews_data) = 3
  /\ Get(reviews_data[1], "Username") = "alice"
  /\ Get(reviews_data[3], "Username") = "bob"

(***************************************************************************)
(* Further properties of the normalization of an item.                     *)
(***************************************************************************)
\* the result list of the first content candidate that matches anything
ContentHit == ChainElems(item.content, ChainLen(variant, kind, "content"))

\* C14: for either kind the Content is the resolved text without a
\* trailing expand marker and the whitespace around it; text that does not
\* end with the marker is unchanged.
C14_MarkerStripped ==
  (pc = "parsed" /\ rec.ok /\ ContentHit # <<>>) =>
    LET first == ReSubExpand(Strip(ContentHit[1]))
        joined == ReSubExpand(JoinFragments(ContentHit))
    IN (first # "" /\ joined # "") => Get(rec.review, "Content") \in {first, joined}

\* C15: when the content selector that succeeds returns several fragments,
\* the Content is all its non-blank fragments, trimmed, joined by one space
\* (before the marker is stripped).
C15_FragmentsJoined ==
  (pc = "parsed" /\ rec.ok /\ Len(ContentHit) > 1) =>
    (ReSubExpand(JoinFragments(ContentHit)) # ""
       => Get(rec.review, "Content")
            \in {JoinFragments(ContentHit), ReSubExpand(JoinFragments(ContentHit))})

\* C16: each field's value comes from the first element of the first
\* candidate whose result set is non-empty, also when that element is blank
\* or carries no tier marker; nothing else is consulted after it.
C16_FirstSuccessWins ==
  (pc = "parsed" /\ rec.ok) =>
    LET hit(f, results) == ChainElems(results, ChainLen(variant, kind, f))
        r == rec.review
        u == hit("username", item.username)
        d == hit("date", item.date)
        g == hit("rating", item.rating)
        p == hit("votes", item.votes)
        l == hit("location", item.location)
    IN /\ u # <<>> => Get(r, "Username") = u[1]
       /\ d # <<>> => Get(r, "Date") \in {Strip(d[1]), DatePart(PySplit(d[1]))}
       /\ g # <<>> => Get(r, "Rating of film") = RatingOfClass(variant, kind, g[1])
       /\ p # <<>> => Get(r, "Popularity of review") \in {p[1], Strip(p[1])}
       /\ l # <<>> => Get(r, "Location of reviewer") = Strip(l[1])
       /\ ContentHit # <<>> =>
            Get(r, "Content") \in {Strip(ContentHit[1]), ReSubExpand(Strip(ContentHit[1]))}

\* C17: the token to label table is the same for both kinds: the label of
\* the record equals the label the same class token gets when it is
\* resolved for an item of the other kind.
C17_SameTableBothKinds ==
  (pc = "parsed" /\ rec.ok /\ item.rating # <<>>) =>
    LET token == item.rating[1].elems[1]
        other == IF kind = "short" THEN "long" ELSE "short"
    IN Get(rec.review, "Rating of film") = RatingOfClass(variant, other, token)

(***************************************************************************)
(* The retry loop of scrape_all_reviews and the offsets of the page loop.  *)
(***************************************************************************)
\* C19: BluekiteReviewScraper.scrape_all_reviews gives up after at most
\* max_retries + 1 attempts: when the long call of the attempt made with
\* retry_attempts = max_retries is back, the operation returns its table.
C19_GivesUpAfterRetries ==
  [][ (variant = "bluekite" /\ op = "all" /\ pc = "ret" /\ kind = "long"
       /\ retry_attempts = max_retries) => pc' = "idle" ]_vars

\* C20: for every page index of the page loop and for both kinds, the start
\* offset put in the requested URL is 20 times the page index
\* (AuthenticatedDoubanSpiderMan, ManualCookieBlueKiteScraper, BlueKiteScraper).
C20_StartOffset ==
  (pc = "loop" /\ page < actual_pages /\ variant # "bluekite") =>
    StartIdx(variant, kind, page, FALSE) = 20 * page

(***************************************************************************)
(* The requests of one scrape call.                                        *)
(***************************************************************************)
\* the positions of the requests sent for the reason why
Sent(rq, why) == { i \in 1..Len(rq) : rq[i].why = why }

\* an iteration of the page loop is about to run
InPageLoop == pc = "loop" /\ page < actual_pages

C22_NoRequestWhenUnverified ==
  (variant = "bluekite" /\ pc = "ret" /\ login_verified = "False") =>
    (ret = ListValue(<<>>) /\ requests = <<>>)

\* C22 (amended): in BluekiteReviewScraper.scrape_reviews a review page is
\* requested only after verify_login has returned True in that call; when
\* the verify_login of the preamble returns False the call returns an empty
\* list with no review page requested, and when the verify_login that
\* follows the login redirect of the first page returns False the call
\* returns an empty list after that one request.
C22_VerifiedBeforeRequests ==
  [][ variant = "bluekite" =>
        /\ (requests' # <<>> /\ requests' # requests) => login_verified = "True"
        /\ (pc = "begin" /\ login_verified' = "False") =>
             (pc' = "ret" /\ ret' = ListValue(<<>>) /\ requests' = <<>>)
        /\ (pc = "loop" /\ login_verified' = "False") =>
             /\ pc' = "ret" /\ ret' = ListValue(<<>>)
             /\ requests' = << Fetch(0, 0, "page", "redirect") >> ]_vars

C22_Witness ==
  /\ variant = "bluekite"
  /\ pc = "ret"
  /\ login_verified = "False"
  /\ requests = <<>>
  /\ ret = ListValue(<<>>)

\* C23: when a fetched review page triggers bot detection,
\* BluekiteReviewScraper.scrape_reviews requests that page again exactly
\* once, and the fingerprint in use for the retry differs from the one in
\* use when the detection occurred.
C23_BotRetryOnceNewFingerprint ==
  [][ (InPageLoop /\ variant = "bluekite") =>
        LET rq == requests'
            detected == { i \in 1..Len(rq) : rq[i].why # "bot" /\ rq[i].got = "bot" }
        IN /\ Cardinality(Sent(rq, "bot")) = (IF detected = {} THEN 0 ELSE 1)
           /\ \A i \in Sent(rq, "bot") :
                /\ i = Len(rq) /\ i - 1 \in detected
                /\ rq[i].start = rq[i - 1].start
                /\ current_fingerprint' # current_fingerprint ]_vars

\* C24: page-level failure isolation.  Throughout one scrape call the
\* accumulated list only grows: every step of the call keeps the records
\* collected so far as a prefix, and the list returned is the accumulated
\* one; an iteration whose last request failed adds nothing, removes
\* nothing, and is followed by the next page index.
C24_FailureIsolation ==
  [][ pc = "loop" =>
        LET n == Len(reviews_data)
        IN /\ Len(reviews_data') >= n
           /\ SubSeq(reviews_data', 1, n) = reviews_data
           /\ pc' \in {"loop", "ret"}
           /\ pc' = "ret" => ret' = ListValue(reviews_data')
           /\ (InPageLoop /\ requests'[Len(requests')].got = "raise") =>
                /\ reviews_data' = reviews_data
                /\ pc' = "loop"
                /\ page' = page + 1 ]_vars

C24_Witness ==
  /\ pc = "loop"
  /\ page = 2
  /\ requests # <<>>
  /\ requests[1].page = 1
  /\ requests[Len(requests)].got = "raise"
  /\ reviews_data # <<>>

C26_OffsetsOnceInOrder ==
  (variant \in {"auth", "bluekite"} /\ requests # <<>>) =>
    /\ requests[1].why = "page"
    /\ Sent(requests, "page") = {1}
    /\ requests[1].start = 20 * requests[1].page

\* C27: BluekiteReviewScraper.scrape_reviews iterates at most `pages` pages,
\* and with pages = 0 it requests no review page.
C27_AtMostPages ==
  (variant = "bluekite" /\ pc \in {"loop", "ret"}) =>
    /\ actual_pages <= pages
    /\ page <= pages
    /\ pages = 0 => requests = <<>>

(***************************************************************************)
(* The combined table of crawl / scrape_all_reviews.                       *)
(***************************************************************************)
\* the records a scrape call gave its caller, in its order
ListRows(val) == IF val.type = "list" THEN val.rows ELSE <<>>

\* C28: when crawl / scrape_all_reviews builds its table from the two scrape
\* calls, the rows are the records of the short call in the order it
\* returned them, followed by the records of the long call in its order, and
\* every Short record precedes every Long record.
C28_ShortBeforeLong ==
  [][ (op = "all" /\ pc = "ret" /\ kind = "long" /\ ret # Raised
       /\ ListRows(short_reviews) \o ListRows(ret) # <<>>) =>
        LET rows == result'.rows
        IN /\ pc' = "idle"
           /\ result'.type = "table"
           /\ rows = ListRows(short_reviews) \o ListRows(ret)
           /\ \A i, j \in 1..Len(rows) :
                (Get(rows[i], "Review Type") = "Long"
                 /\ Get(rows[j], "Review Type") = "Short") => j < i ]_vars

C28_Witness ==
  /\ pc = "idle"
  /\ result.type = "table"
  /\ Len(result.rows) >= 3
  /\ Get(result.rows[1], "Review Type") = "Short"
  /\ Get(result.rows[Len(result.rows)], "Review Type") = "Long"

====
